---- MODULE Spec2Model ----
(***************************************************************************)
(* Model of shennong.processor.vtln.VtlnProcessor: the training            *)
(* orchestrator process(), the base transform estimator                    *)
(* compute_mapping_transform(), the unit estimator estimate() and the      *)
(* persistence methods load / load_warps / save / save_warps.              *)
(*                                                                         *)
(* Warp values are floats in the source.  The model keeps them as integer  *)
(* multiples of 1/200 (One = 1.0).  The grids explored are multiples of    *)
(* 1/8 (25 units): on such dyadic values the float subtraction, product    *)
(* and comparisons of process() are exact and int() of 0.5 + x/y or        *)
(* 1.5 + x/y equals the truncation of the exact quotient.                  *)
(* Matrices are kept as tokens naming what they were computed from.        *)
(***************************************************************************)
EXTENDS Integers, Sequences, FiniteSets, TLC

\* ------------------------------------------------------------- bounds
MaxIters == 2
MaxClasses == 3
MaxCalls == 2
Dim == 2

\* ---------------------------------------------------------- constants
One == 200
\* The constructor's defaults: num_iters=15, min_warp=0.85,
\* max_warp=1.25, warp_step=0.01
DefaultNumIters == 15
DefaultMinWarp == 170
DefaultMaxWarp == 250
DefaultWarpStep == 2

None == [none |-> TRUE]
NoResult == [kind |-> "none"]

\* Utterances given to process(): ordered (name, speaker) entries, the
\* speaker being "" when the utterances carry no speaker information.
CorpusSpk ==
    << [name |-> "u1", speaker |-> "s1"],
       [name |-> "u2", speaker |-> "s2"],
       [name |-> "u3", speaker |-> "s1"] >>
CorpusNoSpk ==
    << [name |-> "u1", speaker |-> ""],
       [name |-> "u2", speaker |-> ""] >>
CorpusOneSpk ==
    << [name |-> "u1", speaker |-> "s1"],
       [name |-> "u2", speaker |-> "s1"] >>
Corpora == {CorpusSpk, CorpusNoSpk}
ApiCorpora == {CorpusOneSpk, CorpusNoSpk}

\* (min_warp, max_warp, warp_step) given to the constructor.
WarpGrids ==
    { <<150, 250, 50>>, <<150, 225, 50>>, <<150, 225, 75>>, <<200, 200, 25>>,
      <<125, 150, 25>>, <<275, 275, 50>>, <<250, 150, 50>> }
ApiWarpGrids == { <<150, 225, 75>>, <<250, 150, 50>> }
ApiIters == {0, 1}

GroupBys == {"utterance", "speaker", "other"}
UbmArgs == {"none", "untrained", "trained"}
DefaultFeatures == {"mfcc", "delta", "sliding_window_cmvn"}
Paths == {"p1", "p2"}
FeatureConfigs == {DefaultFeatures, {"mfcc", "delta"}}

\* ------------------------------------------------------------ helpers
Names(utts) == {utts[k].name : k \in 1..Len(utts)}
HasSpeakers(utts) == \A k \in 1..Len(utts) : utts[k].speaker # ""
\* {utt.name: utt.speaker for utt in utterances}
Utt2Speak(utts) ==
    [u \in Names(utts) |->
        utts[CHOOSE k \in 1..Len(utts) : utts[k].name = u].speaker]
Speakers(utts) == {utts[k].speaker : k \in 1..Len(utts)}
\* utterances.by_speaker()[spk][0].name
FirstUtt(utts, spk) ==
    utts[CHOOSE k \in 1..Len(utts) :
            /\ utts[k].speaker = spk
            /\ \A j \in 1..(k-1) : utts[j].speaker # spk].name

\* Frames left of an utterance after VAD trimming and subsampling.
Frames(u) == IF u = "u2" THEN 1 ELSE 2

\* Python int(n/d) for d > 0: truncation toward zero.
Trunc(n, d) == IF n >= 0 THEN n \div d ELSE -((-n) \div d)
\* int(1.5 + (max_warp - min_warp) / warp_step)
NumClasses(minw, maxw, step) == Trunc(3 * step + 2 * (maxw - minw), 2 * step)
\* int(0.5 + (1 - min_warp) / warp_step)
DefaultClass(minw, step) == Trunc(step + 2 * (One - minw), 2 * step)
\* Variant: the class index is dropped.
ThisWarpNoIndex(minw, step, c) == minw + step
\* min_warp + c * warp_step
ThisWarp(minw, step, c) == minw + c * step

Ev(e, a, b) == [ev |-> e, a |-> a, b |-> b]

VARIABLES
    \* the processor
    by_speaker, min_warp, max_warp, warp_step, num_iters, features, ubm,
    lvtln, transforms, warps,
    \* the running process() call: its position, arguments and locals
    pc, utterances, group_by, utt2speak, ubm_obj, num_classes, default_class,
    cmvn_config, orig_features, c, i, adapted, posteriors,
    \* observation: what the call did, how the last operation ended, the
    \* processor as it was when the call started, the calls made so far
    trace, result, pre, calls,
    \* the file system
    files

procvars == << by_speaker, min_warp, max_warp, warp_step, num_iters,
               features, ubm, lvtln, transforms, warps >>
cfgvars == << by_speaker, min_warp, max_warp, warp_step, num_iters >>
localvars == << utterances, group_by, utt2speak, ubm_obj, num_classes,
                default_class, cmvn_config, orig_features, c, i, adapted,
                posteriors >>
vars == << procvars, pc, localvars, trace, result, pre, calls, files >>

\* The processor and the files as an operation finds them, with the
\* operation's arguments.
Snapshot(args) ==
    [config |-> cfgvars, features |-> features, ubm |-> ubm,
     lvtln |-> lvtln, transforms |-> transforms, warps |-> warps,
     files |-> files, args |-> args]

\* ------------------------------------------------- the LVTLN model
\* kaldi LinearVtln.new(dim, num_classes, default_class): every class
\* starts with the unit transform and warp 1.0.
LinearVtlnNew(dim, n, d) ==
    [dim |-> dim, num_classes |-> n, default_class |-> d,
     warp |-> [k \in 1..n |-> One],
     transform |-> [k \in 1..n |-> [kind |-> "unit", warp |-> One]]]

\* The constructor of kaldi's LinearVtln asserts
\* 0 <= default_class < num_classes; a build without assertions takes
\* any default_class.
LinearVtlnAccepts(n, d) == 0 <= d /\ d < n

\* A model file written by an earlier session.
PriorFile ==
    [kind |-> "lvtln",
     data |-> [LinearVtlnNew(Dim, 1, 0) EXCEPT
                  !.transform[1] = [kind |-> "base", warp |-> One]]]

\* isinstance(self.lvtln, LinearVtln)
Initialized(lv) == lv # None

\* Feature collections: utterance -> [rows, cols].
PipelineFeatures(utts) ==
    [u \in Names(utts) |-> [rows |-> Frames(u), cols |-> Dim]]

\* compute_mapping_transform: the checks made on every utterance of
\* feats_untransformed before anything is written.
CmtRaises(dim, fu, ft, weights) ==
    \E u \in DOMAIN fu :
        \/ u \notin DOMAIN ft
        \/ /\ u \in DOMAIN ft
           /\ \/ fu[u].rows # ft[u].rows
              \/ fu[u].cols # ft[u].cols
              \/ fu[u].cols # dim
        \/ weights # None /\ u \notin DOMAIN weights

\* Variant: the classes above class_idx are written as well.
SetClassAndAbove(lv, class_idx, warp) ==
    [lv EXCEPT
        !.transform = [k \in DOMAIN @ |->
                          IF k >= class_idx + 1
                          THEN [kind |-> "base", warp |-> warp] ELSE @[k]],
        !.warp = [k \in DOMAIN @ |-> IF k >= class_idx + 1 THEN warp ELSE @[k]]]

\* The least-squares transform written into class class_idx.
SetClass(lv, class_idx, warp) ==
    [lv EXCEPT !.transform[class_idx + 1] = [kind |-> "base", warp |-> warp],
               !.warp[class_idx + 1] = warp]

ComputeMappingTransform(lv, fu, ft, class_idx, warp, weights) ==
    IF ~Initialized(lv)
    THEN [err |-> "TypeError", msg |-> "VTLN not initialized", lvtln |-> lv]
    ELSE IF CmtRaises(lv.dim, fu, ft, weights)
    THEN [err |-> "ValueError", msg |-> "inconsistent features",
          lvtln |-> lv]
    ELSE [err |-> "none", msg |-> "",
          lvtln |-> SetClass(lv, class_idx, warp)]

\* ------------------------------------------------------- estimate
\* The units estimate works on: speakers when utt2speak is given,
\* utterances otherwise.
EstimateUnits(feats, u2s) ==
    IF u2s = None THEN DOMAIN feats ELSE {u2s[u] : u \in DOMAIN feats}

\* Variant: the size of the posterior is not checked.
EstimateRaisesMissingOnly(feats, post) ==
    \E u \in DOMAIN feats : u \notin DOMAIN post

\* "No posterior for utterance" / "Posterior has wrong size"
EstimateRaises(feats, post) ==
    \E u \in DOMAIN feats :
        \/ u \notin DOMAIN post
        \/ u \in DOMAIN post /\ post[u] # feats[u].rows

\* transforms and warps of every unit, choice[k] being the class index
\* lvtln.compute_transform selects for unit k from its statistics, which
\* are accumulated against the UBM's current gmm.
EstimateMaps(lv, units, choice, gmm) ==
    [transforms |->
        [k \in units |->
            [class |-> choice[k], base |-> lv.transform[choice[k] + 1],
             unit |-> k, gmm |-> gmm]],
     warps |-> [k \in units |-> lv.warp[choice[k] + 1]]]

Estimate(lv, gmm, feats, post, u2s, choice) ==
    IF ~Initialized(lv)
    THEN [err |-> "TypeError", msg |-> "VTLN not initialized",
          transforms |-> None, warps |-> None]
    ELSE IF EstimateRaises(feats, post)
    THEN [err |-> "ValueError", msg |-> "bad posterior",
          transforms |-> None, warps |-> None]
    ELSE [err |-> "none", msg |-> ""]
         @@ EstimateMaps(lv, EstimateUnits(feats, u2s), choice, gmm)

Choices(lv, feats, u2s) ==
    IF Initialized(lv)
    THEN [EstimateUnits(feats, u2s) -> 0..(lv.num_classes - 1)]
    ELSE {[k \in EstimateUnits(feats, u2s) |-> 0]}

\* ------------------------------------------------------ posteriors
\* ubm.gaussian_selection_to_post(feats): one posterior per frame of
\* every utterance.  A UBM object handed in by the caller may also
\* return posteriors that miss an utterance or have another length.
GoodPost(feats) == [u \in DOMAIN feats |-> feats[u].rows]
BadPosts(feats) ==
    { [u \in DOMAIN feats \ {x} |-> feats[u].rows] :
        x \in {y \in DOMAIN feats : Cardinality(DOMAIN feats) > 1} }
    \cup { [GoodPost(feats) EXCEPT ![x] = @ + 1] : x \in DOMAIN feats }
GaussianSelectionToPost(given, feats) ==
    IF given THEN {GoodPost(feats)} \cup BadPosts(feats) ELSE {GoodPost(feats)}

\* -------------------------------------------------------- process
\* Variant: min_warp > max_warp goes unnoticed.
ValidationErrorNoWarpCheck(gb, bysp, utts, minw, maxw) ==
    IF gb \notin {"utterance", "speaker"} THEN "group_by"
    ELSE IF gb = "speaker" /\ ~bysp THEN "speaker_grouping"
    ELSE IF bysp /\ ~HasSpeakers(utts) THEN "no_speakers"
    ELSE "none"

\* The checks of process() on its arguments and on the configuration.
ValidationError(gb, bysp, utts, minw, maxw) ==
    IF gb \notin {"utterance", "speaker"} THEN "group_by"
    ELSE IF gb = "speaker" /\ ~bysp THEN "speaker_grouping"
    ELSE IF bysp /\ ~HasSpeakers(utts) THEN "no_speakers"
    ELSE IF minw > maxw THEN "min_max"
    ELSE "none"

UbmObject(arg) ==
    [given |-> arg # "none", gmm |-> IF arg = "trained" THEN 0 ELSE -1]

\* self.transforms[utt2speak[utt]] for every utterance
BroadcastMap(m, u2s) == [u \in DOMAIN u2s |-> m[u2s[u]]]

\* {spk: self.warps[utts[0].name] for spk, utts in by_speaker().items()}
BySpeakerReport(w, utts) ==
    [s \in Speakers(utts) |-> w[FirstUtt(utts, s)]]

LocalsInit ==
    /\ utterances = <<>>
    /\ group_by = ""
    /\ utt2speak = None
    /\ ubm_obj = None
    /\ num_classes = 0
    /\ default_class = 0
    /\ cmvn_config = None
    /\ orig_features = None
    /\ c = 0
    /\ i = 0
    /\ adapted = None
    /\ posteriors = None

\* The call is over: its locals are gone.
DropLocals ==
    /\ utterances' = <<>>
    /\ group_by' = ""
    /\ utt2speak' = None
    /\ ubm_obj' = None
    /\ num_classes' = 0
    /\ default_class' = 0
    /\ cmvn_config' = None
    /\ orig_features' = None
    /\ c' = 0
    /\ i' = 0
    /\ adapted' = None
    /\ posteriors' = None

Raised(err, why, at) ==
    [kind |-> "raise", error |-> err, why |-> why, at |-> at]

Raise(err, why, at) ==
    /\ pc' = "ended"
    /\ result' = Raised(err, why, at)
    /\ DropLocals

InitWith(grids, iters, feats, ncalls) ==
    /\ by_speaker \in BOOLEAN
    /\ \E g \in grids :
        /\ min_warp = g[1]
        /\ max_warp = g[2]
        /\ warp_step = g[3]
    /\ num_iters \in iters
    /\ features \in feats
    /\ ubm = "default_params"
    /\ lvtln = None
    /\ transforms = None
    /\ warps = None
    /\ pc = "idle"
    /\ LocalsInit
    /\ trace = <<>>
    /\ result = NoResult
    /\ files = [p \in Paths |-> IF p = "p1" THEN PriorFile ELSE None]
    /\ pre = Snapshot(None)
    /\ calls = MaxCalls - ncalls

Init == InitWith(WarpGrids, 0..MaxIters, FeatureConfigs, 1)

\* lines 539-559: argument and configuration checks, utt2speak
ProcessBegin(utts, uarg, gb) ==
    /\ pc = "idle"
    /\ calls < MaxCalls
    /\ num_iters <= MaxIters
    /\ min_warp <= max_warp => 
            NumClasses(min_warp, max_warp, warp_step) <= MaxClasses
    /\ calls' = calls + 1
    /\ pre' = Snapshot([op |-> "process", utterances |-> utts, ubm |-> uarg,
                         group_by |-> gb])
    /\ trace' = <<>>
    /\ IF ValidationError(gb, by_speaker, utts, min_warp, max_warp) # "none"
       THEN Raise("ValueError",
                  ValidationError(gb, by_speaker, utts, min_warp, max_warp),
                  "validate")
       ELSE /\ pc' = "ubm"
            /\ result' = NoResult
            /\ utterances' = utts
            /\ group_by' = gb
            /\ utt2speak' = IF by_speaker THEN Utt2Speak(utts) ELSE None
            /\ ubm_obj' = UbmObject(uarg)
            /\ UNCHANGED << num_classes, default_class, cmvn_config,
                            orig_features, c, i, adapted, posteriors >>
    /\ UNCHANGED << procvars, files >>

\* lines 561-569: train a UBM, or take the one given
AcquireUbm ==
    /\ pc = "ubm"
    /\ IF ~ubm_obj.given
       THEN /\ ubm_obj' = [ubm_obj EXCEPT !.gmm = 0]
            /\ trace' = Append(trace, Ev("ubm_train", 0, 0))
            /\ pc' = "init"
            /\ UNCHANGED << ubm, result, utterances, group_by, utt2speak,
                            num_classes, default_class, cmvn_config,
                            orig_features, c, i, adapted, posteriors >>
       ELSE IF ubm_obj.gmm < 0
       THEN /\ Raise("ValueError", "untrained_ubm", "ubm")
            /\ UNCHANGED << ubm, trace >>
       ELSE /\ ubm' = "given_params"
            /\ pc' = "init"
            /\ UNCHANGED << localvars, trace, result >>
    /\ UNCHANGED << cfgvars, features, lvtln, transforms, warps, pre, calls,
                    files >>

\* lines 571-576: the class grid and the model
InitModel ==
    /\ pc = "init"
    /\ num_classes' = NumClasses(min_warp, max_warp, warp_step)
    /\ default_class' = DefaultClass(min_warp, warp_step)
    /\ \E asserts \in BOOLEAN :
        IF asserts /\ ~LinearVtlnAccepts(num_classes', default_class')
        THEN /\ pc' = "crashed"
             /\ UNCHANGED lvtln
        ELSE /\ lvtln' = LinearVtlnNew(Dim, num_classes', default_class')
             /\ pc' = "prepare"
    /\ UNCHANGED << cfgvars, features, ubm, transforms, warps, utterances,
                    group_by, utt2speak, ubm_obj, cmvn_config, orig_features,
                    c, i, adapted, posteriors, trace, result, pre, calls,
                    files >>

\* lines 578-612: take the cmvn entry out, extract the reference features
PrepareFeatures ==
    /\ pc = "prepare"
    /\ features' = features \ {"sliding_window_cmvn"}
    /\ \E ok \in BOOLEAN :
        IF ok
        THEN /\ cmvn_config' = IF "sliding_window_cmvn" \in features
                               THEN [cmn_window |-> 300] ELSE None
             /\ orig_features' = PipelineFeatures(utterances)
             /\ c' = 0
             /\ pc' = "sweep"
             /\ trace' = Append(trace, Ev("extract", 0, 0))
             /\ UNCHANGED << result, utterances, group_by, utt2speak, ubm_obj,
                             num_classes, default_class, i, adapted,
                             posteriors >>
        ELSE /\ Raise("ExtractionError", "", "extract_features")
             /\ UNCHANGED trace
    /\ UNCHANGED << cfgvars, ubm, lvtln, transforms, warps, pre, calls, files >>

\* line 614: for c in range(num_classes)
SweepContinues(k, n) == k < n

\* lines 614-627: one class of the sweep
SweepClass ==
    /\ pc = "sweep"
    /\ SweepContinues(c, num_classes)
    /\ \E ok \in BOOLEAN :
        IF ok
        THEN LET r == ComputeMappingTransform(
                          lvtln, orig_features, PipelineFeatures(utterances),
                          c, ThisWarp(min_warp, warp_step, c), None)
             IN  IF r.err = "none"
                 THEN /\ lvtln' = r.lvtln
                      /\ c' = c + 1
                      /\ trace' = Append(trace,
                            Ev("cmt", c, ThisWarp(min_warp, warp_step, c)))
                      /\ UNCHANGED << pc, result, utterances, group_by,
                                      utt2speak, ubm_obj, num_classes,
                                      default_class, cmvn_config,
                                      orig_features, i, adapted, posteriors >>
                 ELSE /\ Raise(r.err, r.msg, "compute_mapping_transform")
                      /\ UNCHANGED << lvtln, trace >>
        ELSE /\ Raise("ExtractionError", "", "extract_features_warp")
             /\ UNCHANGED << lvtln, trace >>
    /\ UNCHANGED << cfgvars, features, ubm, transforms, warps, pre, calls,
                    files >>

\* lines 629-635: put the cmvn entry back, Gaussian selection
SweepDone ==
    /\ pc = "sweep"
    /\ ~SweepContinues(c, num_classes)
    /\ features' = IF cmvn_config # None
                   THEN features \cup {"sliding_window_cmvn"} ELSE features
    /\ trace' = Append(trace, Ev("gselect", 0, 0))
    /\ pc' = "assign"
    /\ UNCHANGED << cfgvars, ubm, lvtln, transforms, warps, localvars, result,
                    pre, calls, files >>

\* The collection gaussian_selection_to_post is run on, 0 for the
\* original features and 1 for transformed ones.
FeatureKind(feats) == IF feats = orig_features THEN 0 ELSE 1

\* posteriors = ubm.gaussian_selection_to_post(feats)
PosteriorStep(feats, nextpc) ==
    /\ \E len \in GaussianSelectionToPost(ubm_obj.given, feats) :
        posteriors' = [of |-> feats, gmm |-> ubm_obj.gmm, len |-> len]
    /\ trace' = Append(trace, Ev("post", FeatureKind(feats), ubm_obj.gmm))
    /\ pc' = nextpc
    /\ UNCHANGED << procvars, utterances, group_by, utt2speak, ubm_obj,
                    num_classes, default_class, cmvn_config, orig_features,
                    c, i, adapted, result, pre, calls, files >>

\* self.transforms, self.warps = self.estimate(ubm, orig_features,
\* posteriors, utt2speak)
EstimateStep(nextpc, nexti) ==
    /\ \E ch \in Choices(lvtln, orig_features, utt2speak) :
        LET r == Estimate(lvtln, ubm_obj.gmm, orig_features, posteriors.len,
                          utt2speak, ch)
        IN  IF r.err = "none"
            THEN /\ transforms' = r.transforms
                 /\ warps' = r.warps
                 /\ trace' = Append(trace, Ev("estimate", i, ubm_obj.gmm))
                 /\ pc' = nextpc
                 /\ i' = nexti
                 /\ UNCHANGED << result, utterances, group_by, utt2speak,
                                 ubm_obj, num_classes, default_class,
                                 cmvn_config, orig_features, c, adapted,
                                 posteriors >>
            ELSE /\ Raise(r.err, r.msg, "estimate")
                 /\ UNCHANGED << transforms, warps, trace >>
    /\ UNCHANGED << cfgvars, features, ubm, lvtln, pre, calls, files >>

\* line 639: posteriors on the original features
InitialPosteriors ==
    /\ pc = "assign"
    /\ PosteriorStep(orig_features, "assign_d")

\* lines 640-641: the first estimate
InitialEstimate ==
    /\ pc = "assign_d"
    /\ EstimateStep("em_a", 0)

\* Features(np.dot(feats.data, linear_part.T) + offset, ...): the
\* features of utt, transformed by the transform of its unit
Adapt(feats, tr, u2s) ==
    [u \in DOMAIN feats |->
        LET ind == IF u2s = None THEN u ELSE u2s[u]
        IN  [rows |-> feats[u].rows, cols |-> feats[u].cols,
             unit |-> tr[ind].unit, gmm |-> tr[ind].gmm]]

\* Variant: one pass too many.
LoopContinuesInclusive(k, n) == k <= n

\* line 643: for i in range(self.num_iters)
LoopContinues(k, n) == k < n

\* lines 646-654: transform the features
EmTransform ==
    /\ pc = "em_a"
    /\ LoopContinues(i, num_iters)
    /\ adapted' = Adapt(orig_features, transforms, utt2speak)
    /\ trace' = Append(trace, Ev("adapt", i, ubm_obj.gmm))
    /\ pc' = "em_b"
    /\ UNCHANGED << procvars, utterances, group_by, utt2speak, ubm_obj,
                    num_classes, default_class, cmvn_config, orig_features,
                    c, i, posteriors, result, pre, calls, files >>

\* lines 656-658: ubm.accumulate(features), ubm.estimate(gmm_accs)
EmUpdateUbm ==
    /\ pc = "em_b"
    /\ ubm_obj' = [ubm_obj EXCEPT !.gmm = @ + 1]
    /\ trace' = Append(trace, Ev("ubm_update", i, ubm_obj.gmm + 1))
    /\ pc' = "em_c"
    /\ UNCHANGED << procvars, utterances, group_by, utt2speak, num_classes,
                    default_class, cmvn_config, orig_features, c, i, adapted,
                    posteriors, result, pre, calls, files >>

\* Variant: posteriors on the original features.
PosteriorInputOriginal(orig, feats) == orig

\* The collection line 662 hands to gaussian_selection_to_post.
PosteriorInput(orig, feats) == feats

\* line 662: posteriors with the updated UBM
EmPosteriors ==
    /\ pc = "em_c"
    /\ PosteriorStep(PosteriorInput(orig_features, adapted), "em_d")

\* lines 663-664: re-estimate the transforms and warps
EmEstimate ==
    /\ pc = "em_d"
    /\ EstimateStep("em_a", i + 1)

\* Variant: the transforms are left keyed by speaker.
BroadcastTransformsSkipped(tr, u2s) == tr

\* lines 667-669
BroadcastTransforms(tr, u2s) == BroadcastMap(tr, u2s)

\* lines 666-672: every utterance gets the maps of its speaker
Broadcast ==
    /\ pc = "em_a"
    /\ ~LoopContinues(i, num_iters)
    /\ IF by_speaker
       THEN /\ transforms' = BroadcastTransforms(transforms, utt2speak)
            /\ warps' = BroadcastMap(warps, utt2speak)
       ELSE UNCHANGED << transforms, warps >>
    /\ pc' = "report"
    /\ UNCHANGED << cfgvars, features, ubm, lvtln, localvars, trace, result,
                    pre, calls, files >>

\* Variant: group_by is ignored.
ReturnedUngrouped(gb, w, utts) == w

\* lines 674-680: the mapping returned
Returned(gb, w, utts) ==
    IF gb = "utterance" THEN w ELSE BySpeakerReport(w, utts)

Report ==
    /\ pc = "report"
    /\ result' = [kind |-> "return",
                  value |-> Returned(group_by, warps, utterances),
                  utterances |-> utterances, group_by |-> group_by]
    /\ pc' = "ended"
    /\ DropLocals
    /\ UNCHANGED << procvars, trace, pre, calls, files >>

ProcessOn(corpora) ==
    \/ \E utts \in corpora, uarg \in UbmArgs, gb \in GroupBys :
            ProcessBegin(utts, uarg, gb)
    \/ AcquireUbm
    \/ InitModel
    \/ PrepareFeatures
    \/ SweepClass
    \/ SweepDone
    \/ InitialPosteriors
    \/ InitialEstimate
    \/ EmTransform
    \/ EmUpdateUbm
    \/ EmPosteriors
    \/ EmEstimate
    \/ Broadcast
    \/ Report

Process == ProcessOn(Corpora)

\* ------------------------------------- the methods called on their own
\* os.path.isfile(path)
IsFile(fs, p) == fs[p] # None

\* Variant: save writes whatever self.lvtln is.
SaveOutcomeUnchecked(fs, lv, p) ==
    IF IsFile(fs, p)
    THEN [err |-> "OSError", msg |-> "file already exists", files |-> fs]
    ELSE [err |-> "none", msg |-> "",
          files |-> [fs EXCEPT ![p] = [kind |-> "lvtln", data |-> lv]]]

\* save(path), lines 235-244
SaveOutcome(fs, lv, p) ==
    IF IsFile(fs, p)
    THEN [err |-> "OSError", msg |-> "file already exists", files |-> fs]
    ELSE IF ~Initialized(lv)
    THEN [err |-> "TypeError", msg |-> "VTLN not initialized", files |-> fs]
    ELSE [err |-> "none", msg |-> "",
          files |-> [fs EXCEPT ![p] = [kind |-> "lvtln", data |-> lv]]]

\* Variant: save_warps looks at self.warps only.
SaveWarpsOutcomeOverwrite(fs, w, p) ==
    IF w = None
    THEN [err |-> "TypeError", msg |-> "Warps not computed", files |-> fs]
    ELSE [err |-> "none", msg |-> "",
          files |-> [fs EXCEPT ![p] = [kind |-> "warps", data |-> w]]]

\* save_warps(path), lines 246-257
SaveWarpsOutcome(fs, w, p) ==
    IF IsFile(fs, p)
    THEN [err |-> "OSError", msg |-> "file already exists", files |-> fs]
    ELSE IF w = None
    THEN [err |-> "TypeError", msg |-> "Warps not computed", files |-> fs]
    ELSE [err |-> "none", msg |-> "",
          files |-> [fs EXCEPT ![p] = [kind |-> "warps", data |-> w]]]

\* load(path), lines 211-221: the model read from the file
LoadOutcome(fs, p) ==
    IF ~IsFile(fs, p)
    THEN [err |-> "OSError", msg |-> "file not found", lvtln |-> None]
    ELSE IF fs[p].kind # "lvtln"
    THEN [err |-> "ReadError", msg |-> "not a LVTLN model", lvtln |-> None]
    ELSE [err |-> "none", msg |-> "", lvtln |-> fs[p].data]

\* Whether open(path, 'r') reads the file as UTF-8 text.  A warps file
\* is text.  A model file holds the floats of its warps and matrices: a
\* warp in [1.0, 2.0) on the grid of eighths (1.0 = 00 00 80 3f) and the
\* 1.0 on the diagonal of a unit transform are stored with a byte of
\* 0x80 or more after a zero byte, which no UTF-8 text has; for other
\* values it depends on the bytes of the matrices.
Utf8Decodes(fs, p) ==
    IF ~IsFile(fs, p) \/ fs[p].kind = "warps" THEN {TRUE}
    ELSE IF \E k \in 1..fs[p].data.num_classes :
                \/ /\ fs[p].data.warp[k] >= One
                   /\ fs[p].data.warp[k] < 2 * One
                   /\ fs[p].data.warp[k] % 25 = 0
                \/ fs[p].data.transform[k].kind = "unit"
    THEN {FALSE}
    ELSE BOOLEAN

\* load_warps(path), lines 223-233: a file that is no text raises the
\* UnicodeDecodeError of the read at line 229, which is no YAMLError; a
\* model file that reads as text is rejected by the YAML reader.
LoadWarpsOutcome(fs, p, decodes) ==
    IF ~IsFile(fs, p)
    THEN [err |-> "OSError", msg |-> "file not found", warps |-> None]
    ELSE IF ~decodes
    THEN [err |-> "UnicodeDecodeError",
          msg |-> "'utf-8' codec can't decode byte", warps |-> None]
    ELSE IF fs[p].kind # "warps"
    THEN [err |-> "ValueError", msg |-> "Error in VTLN warps file",
          warps |-> None]
    ELSE [err |-> "none", msg |-> "", warps |-> fs[p].data]

\* How an operation called on its own ends.
Outcome(r, value) ==
    IF r.err = "none" THEN [kind |-> "return", value |-> value]
    ELSE Raised(r.err, r.msg, "call")

Save(p) ==
    /\ pc = "idle"
    /\ LET r == SaveOutcome(files, lvtln, p)
       IN  /\ files' = r.files
           /\ result' = Outcome(r, None)
    /\ pre' = Snapshot([op |-> "save", path |-> p])
    /\ pc' = "ended"
    /\ UNCHANGED << procvars, localvars, trace, calls >>

SaveWarps(p) ==
    /\ pc = "idle"
    /\ LET r == SaveWarpsOutcome(files, warps, p)
       IN  /\ files' = r.files
           /\ result' = Outcome(r, None)
    /\ pre' = Snapshot([op |-> "save_warps", path |-> p])
    /\ pc' = "ended"
    /\ UNCHANGED << procvars, localvars, trace, calls >>

\* vtln = VtlnProcessor(); vtln.lvtln = ...: the processor returned takes
\* the place of the one in hand.
Load(p) ==
    /\ pc = "idle"
    /\ LET r == LoadOutcome(files, p)
       IN  /\ result' = Outcome(r, [lvtln |-> r.lvtln])
           /\ IF r.err = "none"
              THEN /\ by_speaker' = TRUE
                   /\ min_warp' = DefaultMinWarp
                   /\ max_warp' = DefaultMaxWarp
                   /\ warp_step' = DefaultWarpStep
                   /\ num_iters' = DefaultNumIters
                   /\ features' = DefaultFeatures
                   /\ ubm' = "default_params"
                   /\ lvtln' = r.lvtln
                   /\ transforms' = None
                   /\ warps' = None
              ELSE UNCHANGED procvars
    /\ pre' = Snapshot([op |-> "load", path |-> p])
    /\ pc' = "ended"
    /\ UNCHANGED << localvars, trace, calls, files >>

LoadWarps(p) ==
    /\ pc = "idle"
    /\ \E decodes \in Utf8Decodes(files, p) :
        LET r == LoadWarpsOutcome(files, p, decodes)
        IN  result' = Outcome(r, r.warps)
    /\ pre' = Snapshot([op |-> "load_warps", path |-> p])
    /\ pc' = "ended"
    /\ UNCHANGED << procvars, localvars, trace, calls, files >>

\* Feature collections and weights handed to compute_mapping_transform
\* and estimate by a caller.
OneUtt == [u \in {"u1"} |-> [rows |-> 2, cols |-> Dim]]
CallerFeatures ==
    { OneUtt,
      [u \in {"u2"} |-> [rows |-> 2, cols |-> Dim]],
      [u \in {"u1"} |-> [rows |-> 1, cols |-> Dim]],
      [u \in {"u1"} |-> [rows |-> 2, cols |-> Dim + 1]] }
CallerWeights == {None, [u \in {"u1"} |-> 2], [u \in {"u2"} |-> 2]}
ClassIndexes(lv) == IF Initialized(lv) THEN 0..(lv.num_classes - 1) ELSE {0}

CallComputeMappingTransform(fu, ft, class_idx, warp, weights) ==
    /\ pc = "idle"
    /\ LET r == ComputeMappingTransform(lvtln, fu, ft, class_idx, warp,
                                        weights)
       IN  /\ lvtln' = r.lvtln
           /\ result' = Outcome(r, None)
    /\ pre' = Snapshot([op |-> "compute_mapping_transform",
                        class_idx |-> class_idx, warp |-> warp])
    /\ pc' = "ended"
    /\ UNCHANGED << cfgvars, features, ubm, transforms, warps, localvars,
                    trace, calls, files >>

TwoUtts == [u \in {"u1", "u2"} |-> [rows |-> Frames(u), cols |-> Dim]]
CallerPosteriors ==
    { GoodPost(TwoUtts), [u \in {"u1"} |-> Frames(u)],
      [GoodPost(TwoUtts) EXCEPT !["u2"] = @ + 1] }
CallerUtt2Speak == {None, [u \in {"u1", "u2"} |-> "s1"]}

CallEstimate(post, u2s) ==
    /\ pc = "idle"
    /\ \E ch \in Choices(lvtln, TwoUtts, u2s) :
        LET r == Estimate(lvtln, 0, TwoUtts, post, u2s, ch)
        IN  result' = Outcome(r, [transforms |-> r.transforms,
                                  warps |-> r.warps])
    /\ pre' = Snapshot([op |-> "estimate", utt2speak |-> u2s])
    /\ pc' = "ended"
    /\ UNCHANGED << procvars, localvars, trace, calls, files >>

\* ------------------------------------------- the property setters
\* Values a caller assigns to num_iters, in halves (0, 1, 1.5), and to
\* the warp grid, in units of 1/200.
NumItersValues == {0, 2, 3}
MinWarpValues == {150, 250}
MaxWarpValues == {225}
WarpStepValues == {75}
\* Values assigned to features and ubm: a dict, with its keys or the
\* parameters it holds, or something that is no dict.
FeaturesValues ==
    { [dict |-> TRUE, keys |-> DefaultFeatures],
      [dict |-> TRUE, keys |-> {"delta"}],
      [dict |-> FALSE, keys |-> {}] }
UbmValues ==
    { [dict |-> TRUE, known |-> TRUE, params |-> "assigned_params"],
      [dict |-> TRUE, known |-> TRUE, params |-> "given_params"],
      [dict |-> TRUE, known |-> FALSE, params |-> "unknown_params"],
      [dict |-> FALSE, known |-> FALSE, params |-> ""] }

\* int(value) of a value given in halves
IntOfHalves(v) == Trunc(v, 2)

\* An assignment to a property ends: the setter returned or raised.
SetterEnds(name, value, r) ==
    /\ pc = "idle"
    /\ result' = Outcome(r, None)
    /\ pre' = Snapshot([op |-> name, value |-> value])
    /\ pc' = "ended"
    /\ UNCHANGED << lvtln, transforms, warps, localvars, trace, calls, files >>

Returns == [err |-> "none", msg |-> ""]

\* lines 114-116: self._num_iters = int(value)
SetNumIters(v) ==
    /\ SetterEnds("num_iters", v, Returns)
    /\ num_iters' = IntOfHalves(v)
    /\ UNCHANGED << by_speaker, min_warp, max_warp, warp_step, features, ubm >>

\* lines 123-125: self._min_warp = float(value)
SetMinWarp(v) ==
    /\ SetterEnds("min_warp", v, Returns)
    /\ min_warp' = v
    /\ UNCHANGED << by_speaker, max_warp, warp_step, num_iters, features, ubm >>

\* lines 132-134: self._max_warp = float(value)
SetMaxWarp(v) ==
    /\ SetterEnds("max_warp", v, Returns)
    /\ max_warp' = v
    /\ UNCHANGED << by_speaker, min_warp, warp_step, num_iters, features, ubm >>

\* lines 141-143: self._warp_step = float(value)
SetWarpStep(v) ==
    /\ SetterEnds("warp_step", v, Returns)
    /\ warp_step' = v
    /\ UNCHANGED << by_speaker, min_warp, max_warp, num_iters, features, ubm >>

\* lines 180-182: self._by_speaker = bool(value)
SetBySpeaker(v) ==
    /\ SetterEnds("by_speaker", v, Returns)
    /\ by_speaker' = v
    /\ UNCHANGED << min_warp, max_warp, warp_step, num_iters, features, ubm >>

\* lines 189-195: the checks of the features setter
FeaturesSetterOutcome(v) ==
    IF ~v.dict
    THEN [err |-> "TypeError",
          msg |-> "Features extraction configuration must be a dict"]
    ELSE IF "mfcc" \notin v.keys
    THEN [err |-> "ValueError",
          msg |-> "Need mfcc features to train VTLN model"]
    ELSE Returns

\* line 195: self._features = copy.deepcopy(value)
SetFeatures(v) ==
    /\ SetterEnds("features", v, FeaturesSetterOutcome(v))
    /\ features' = IF FeaturesSetterOutcome(v).err = "none"
                   THEN v.keys ELSE features
    /\ UNCHANGED << cfgvars, ubm >>

\* lines 202-209: the checks of the ubm setter
UbmSetterOutcome(v) ==
    IF ~v.dict
    THEN [err |-> "TypeError", msg |-> "UBM configuration must be a dict"]
    ELSE IF ~v.known
    THEN [err |-> "ValueError",
          msg |-> "Unknown parameters given for UBM config"]
    ELSE Returns

\* line 209: self._ubm = copy.deepcopy(value)
SetUbm(v) ==
    /\ SetterEnds("ubm", v, UbmSetterOutcome(v))
    /\ ubm' = IF UbmSetterOutcome(v).err = "none" THEN v.params ELSE ubm
    /\ UNCHANGED << cfgvars, features >>

Setters ==
    \/ \E v \in NumItersValues : SetNumIters(v)
    \/ \E v \in MinWarpValues : SetMinWarp(v)
    \/ \E v \in MaxWarpValues : SetMaxWarp(v)
    \/ \E v \in WarpStepValues : SetWarpStep(v)
    \/ \E v \in BOOLEAN : SetBySpeaker(v)
    \/ \E v \in FeaturesValues : SetFeatures(v)
    \/ \E v \in UbmValues : SetUbm(v)

Api ==
    \/ \E p \in Paths : Save(p)
    \/ \E p \in Paths : SaveWarps(p)
    \/ \E p \in Paths : Load(p)
    \/ \E p \in Paths : LoadWarps(p)
    \/ \E ft \in CallerFeatures, w \in CallerWeights,
          k \in ClassIndexes(lvtln) :
            CallComputeMappingTransform(OneUtt, ft, k, One + 25, w)
    \/ \E post \in CallerPosteriors, u2s \in CallerUtt2Speak :
            CallEstimate(post, u2s)

\* The caller is done with the outcome of the last operation.
Release ==
    /\ pc = "ended"
    /\ pc' = "idle"
    /\ result' = NoResult
    /\ trace' = <<>>
    /\ pre' = Snapshot(None)
    /\ UNCHANGED << procvars, localvars, calls, files >>

Next == Process \/ Release

Spec == Init /\ [][Next]_vars

\* The processor used through all of its methods, process() up to
\* MaxCalls times.
InitApi == InitWith(ApiWarpGrids, ApiIters, {DefaultFeatures}, MaxCalls)
NextApi == ProcessOn(ApiCorpora) \/ Api \/ Release
SpecApi == InitApi /\ [][NextApi]_vars

\* The processor constructed with its defaults, reconfigured through its
\* properties between process() calls.
InitConfig ==
    InitWith({<< DefaultMinWarp, DefaultMaxWarp, DefaultWarpStep >>},
             {DefaultNumIters}, {DefaultFeatures}, MaxCalls)
NextConfig == ProcessOn(ApiCorpora) \/ Setters \/ Release
SpecConfig == InitConfig /\ [][NextConfig]_vars

\* ==================================================================
\* Properties
\* ==================================================================
\* A process call has returned.
Completed ==
    /\ pc = "ended"
    /\ pre.args # None
    /\ pre.args.op = "process"
    /\ result.kind = "return"
Abs(x) == IF x < 0 THEN -x ELSE x
SameSpeaker(utts, u, v) == Utt2Speak(utts)[u] = Utt2Speak(utts)[v]

\* C1: when by_speaker is True and process completes, two utterances of
\* the same speaker have the identical warp in the returned mapping and
\* in self.warps and the identical transform in self.transforms.
C1_SameSpeakerSameWarp ==
    (Completed /\ by_speaker) =>
        \A u, v \in Names(result.utterances) :
            SameSpeaker(result.utterances, u, v) =>
                /\ {u, v} \subseteq DOMAIN warps
                /\ warps[u] = warps[v]
                /\ {u, v} \subseteq DOMAIN transforms
                /\ transforms[u] = transforms[v]
                /\ result.group_by = "utterance" =>
                        result.value[u] = result.value[v]

C1_Witness ==
    /\ Completed
    /\ by_speaker
    /\ num_iters > 0
    /\ result.group_by = "utterance"
    /\ result.value["u1"] = result.value["u3"]
    /\ result.value["u1"] # result.value["u2"]
    /\ transforms["u1"] = transforms["u3"]

\* C3: for every configuration with min_warp <= max_warp the grid
\* process builds has num_classes >= 1, a default_class_index within
\* [0, num_classes), and that index is the class closest to warp 1.0.
C3_DefaultClassInGrid ==
    pc \in {"prepare", "crashed"} =>
        /\ num_classes >= 1
        /\ 0 <= default_class
        /\ default_class < num_classes
        /\ \A k \in 0..(num_classes - 1) :
              Abs(ThisWarp(min_warp, warp_step, default_class) - One)
                <= Abs(ThisWarp(min_warp, warp_step, k) - One)

\* The events of the assignment and of the EM refinement, the kind of
\* features the posteriors were computed on left aside.
IsEmEvent(e) == e.ev \in {"post", "estimate", "adapt", "ubm_update"}
EmEvents(tr) ==
    LET sel == SelectSeq(tr, IsEmEvent)
    IN  [k \in 1..Len(sel) |->
            IF sel[k].ev = "post" THEN [sel[k] EXCEPT !.a = 0] ELSE sel[k]]

RECURSIVE EmSchedule(_)
EmSchedule(n) ==
    IF n = 0
    THEN << Ev("post", 0, 0), Ev("estimate", 0, 0) >>
    ELSE EmSchedule(n - 1) \o
         << Ev("adapt", n - 1, n - 1), Ev("ubm_update", n - 1, n),
            Ev("post", 0, n), Ev("estimate", n - 1, n) >>

\* C4: a completed run is one initial assignment followed by exactly
\* num_iters passes of (a) adapt, (b) UBM update, (c) posteriors,
\* (d) estimate; pass k adapts with the transforms and starts from the
\* UBM that pass k-1 left.
C4_EmSchedule ==
    /\ Completed => EmEvents(trace) = EmSchedule(num_iters)
    /\ pc = "em_b" =>
          /\ ubm_obj.gmm = i
          /\ \A u \in DOMAIN adapted : adapted[u].gmm = i
    /\ pc = "em_d" =>
          /\ ubm_obj.gmm = i + 1
          /\ posteriors.gmm = i + 1

C4_Witness ==
    /\ Completed
    /\ num_iters >= 2
    /\ Len(SelectSeq(trace, IsEmEvent)) = 2 + 4 * num_iters

\* C5 as stated: the posteriors handed to the re-estimation of a pass
\* are computed on the original features with the UBM updated in that
\* pass.
C5_PosteriorsOnOriginal ==
    pc = "em_d" =>
        /\ posteriors.of = orig_features
        /\ posteriors.gmm = ubm_obj.gmm

\* C5 amended: the posteriors handed to the re-estimation of a pass are
\* computed on the transformed features of step (a) of that pass, with
\* the UBM updated in step (b) of that pass.
C5_PosteriorsOnAdapted ==
    pc = "em_d" =>
        /\ posteriors.of = adapted
        /\ posteriors.of # orig_features
        /\ \A u \in DOMAIN adapted : adapted[u].gmm = i
        /\ posteriors.gmm = ubm_obj.gmm
        /\ ubm_obj.gmm = i + 1

C5_Witness ==
    /\ pc = "em_d"
    /\ i = 1
    /\ posteriors.len = GoodPost(orig_features)

\* C6: the returned mapping has one entry per utterance or per speaker
\* as group_by asks, every value is the warp of a class of the grid, and
\* the value of a speaker is the warp of each of its utterances.
C6_ReturnedMapping ==
    Completed =>
        /\ DOMAIN result.value =
              IF result.group_by = "utterance"
              THEN Names(result.utterances)
              ELSE Speakers(result.utterances)
        /\ \A k \in DOMAIN result.value :
              \E cl \in 0..(NumClasses(min_warp, max_warp, warp_step) - 1) :
                  result.value[k] = min_warp + cl * warp_step
        /\ result.group_by = "speaker" =>
              \A u \in Names(result.utterances) :
                  /\ u \in DOMAIN warps
                  /\ result.value[Utt2Speak(result.utterances)[u]] = warps[u]

C6_Witness ==
    /\ Completed
    /\ result.group_by = "speaker"
    /\ DOMAIN result.value = {"s1", "s2"}
    /\ result.value["s1"] # result.value["s2"]

\* Some utterance has no posterior, or one of another length than its
\* frame count.
BadPosteriors(feats, post) ==
    \E u \in DOMAIN feats :
        IF u \in DOMAIN post THEN post[u] # feats[u].rows ELSE TRUE

\* C9: an estimate call of a run that meets an utterance without
\* posterior, or with a posterior of the wrong length, raises, yields no
\* transform or warp, and process ends without returning a mapping.
C9_BadPosteriorAborts ==
    [][ ( /\ pc \in {"assign_d", "em_d"}
          /\ BadPosteriors(orig_features, posteriors.len) )
        => ( /\ pc' = "ended"
             /\ result'.kind = "raise"
             /\ result'.error = "ValueError"
             /\ transforms' = transforms
             /\ warps' = warps ) ]_vars

C9_Witness ==
    /\ pc = "ended"
    /\ result.kind = "raise"
    /\ result.at = "estimate"
    /\ \E k \in 1..Len(trace) : trace[k].ev = "estimate"
    /\ by_speaker

\* The stage a position of process belongs to.
Stage(p) ==
    CASE p = "idle" -> 1
      [] p = "ubm" -> 2
      [] p = "init" -> 3
      [] p = "prepare" -> 4
      [] p = "sweep" -> 5
      [] p \in {"assign", "assign_d"} -> 6
      [] p \in {"em_a", "em_b", "em_c", "em_d"} -> 7
      [] p = "report" -> 9
      [] OTHER -> 10

IsCmtEvent(e) == e.ev = "cmt"

\* Every class holds its base transform and its warp, in ascending order.
SweepComplete ==
    /\ lvtln # None
    /\ lvtln.num_classes = NumClasses(min_warp, max_warp, warp_step)
    /\ \A k \in 1..lvtln.num_classes :
          /\ lvtln.warp[k] = min_warp + (k - 1) * warp_step
          /\ lvtln.transform[k] = [kind |-> "base", warp |-> lvtln.warp[k]]
          /\ k > 1 => lvtln.warp[k - 1] < lvtln.warp[k]
    /\ SelectSeq(trace, IsCmtEvent) =
          [k \in 1..lvtln.num_classes |->
              Ev("cmt", k - 1, min_warp + (k - 1) * warp_step)]

\* C10: process never goes back to an earlier stage, and when the first
\* estimate is about to read the model the sweep has called
\* compute_mapping_transform once per class, in ascending order.
C10_StagesInOrder ==
    [][ /\ pc # "ended" => Stage(pc') >= Stage(pc)
        /\ Stage(pc') \in {6, 7, 9} => SweepComplete' ]_vars

C10_Witness ==
    /\ pc = "assign_d"
    /\ lvtln.num_classes = 3
    /\ lvtln.warp[3] > lvtln.warp[2]

\* The processor is as the operation found it.
ProcessorAsBefore ==
    /\ cfgvars = pre.config
    /\ features = pre.features
    /\ ubm = pre.ubm
    /\ lvtln = pre.lvtln
    /\ transforms = pre.transforms
    /\ warps = pre.warps

\* The cases in which process must refuse the call.
InvalidCall(a) ==
    \/ a.group_by \notin {"utterance", "speaker"}
    \/ a.group_by = "speaker" /\ ~by_speaker
    \/ by_speaker /\ \E k \in 1..Len(a.utterances) : a.utterances[k].speaker = ""
    \/ min_warp > max_warp
    \/ a.ubm = "untrained"

\* C2: a process call with a bad group_by, group_by='speaker' without
\* by_speaker, by_speaker without speaker information, min_warp >
\* max_warp or an untrained UBM raises a ValueError, never gets to the
\* model initialisation, leaves the processor as it found it and starts
\* no feature extraction and no UBM training.
C2_ValidationAbortsEarly ==
    (pc # "idle" /\ pre.args # None /\ pre.args.op = "process"
        /\ InvalidCall(pre.args)) =>
        /\ pc \in {"ubm", "ended"}
        /\ pc = "ended" =>
              /\ result.kind = "raise"
              /\ result.error = "ValueError"
        /\ ProcessorAsBefore
        /\ trace = << >>

C2_Witness ==
    /\ pc = "ended"
    /\ pre.args.op = "process"
    /\ result.kind = "raise"
    /\ result.why = "untrained_ubm"
    /\ lvtln # None
    /\ warps # None
    /\ "sliding_window_cmvn" \in features

\* C7: save and save_warps on a path that is a file raise and leave the
\* file as it is, whatever the processor holds; load and load_warps on
\* a path that is no file raise and give no processor and no warps.
C7_NoOverwriteNoPhantomLoad ==
    pc = "ended" =>
        /\ ( /\ pre.args.op \in {"save", "save_warps"}
             /\ pre.files[pre.args.path] # None )
           => ( /\ result.kind = "raise"
                /\ files = pre.files
                /\ ProcessorAsBefore )
        /\ ( /\ pre.args.op \in {"load", "load_warps"}
             /\ pre.files[pre.args.path] = None )
           => ( /\ result.kind = "raise"
                /\ result.error = "OSError"
                /\ files = pre.files
                /\ ProcessorAsBefore )

C7_Witness ==
    /\ pc = "ended"
    /\ pre.args.op = "save_warps"
    /\ pre.args.path = "p1"
    /\ warps # None
    /\ lvtln # None
    /\ result.kind = "raise"
    /\ files["p1"] = PriorFile

NotInitialized == Raised("TypeError", "VTLN not initialized", "call")

\* C8: the model of a processor comes to exist only when process gets
\* to the model initialisation or through load, and then stays; until
\* then compute_mapping_transform, estimate and save to a free path
\* raise 'VTLN not initialized' and change nothing, afterwards they do
\* not raise it.
C8_NotInitialized ==
    [][ /\ (lvtln = None /\ lvtln' # None) =>
              \/ pc = "init"
              \/ pc = "idle" /\ pre'.args.op = "load"
        /\ lvtln # None => lvtln' # None
        /\ ( /\ pc = "idle"
             /\ pc' = "ended"
             /\ \/ pre'.args.op \in {"compute_mapping_transform", "estimate"}
                \/ pre'.args.op = "save" /\ files[pre'.args.path] = None )
           => IF lvtln = None
              THEN /\ result' = NotInitialized
                   /\ UNCHANGED << procvars, files >>
              ELSE result' # NotInitialized ]_vars

C8_Witness ==
    /\ pc = "ended"
    /\ pre.args.op = "save"
    /\ pre.args.path = "p2"
    /\ calls > 0
    /\ lvtln = None
    /\ result = NotInitialized
    /\ files["p2"] = None

\* The model object in hand is replaced by another one: process builds
\* a new model, load returns a processor holding the model of the file.
ModelReplaced ==
    \/ pc = "init"
    \/ pc = "idle" /\ pre'.args.op = "load"

\* A step in which compute_mapping_transform has completed on class k.
CmtCompleted(k) ==
    \/ pc = "sweep" /\ pc' = "sweep" /\ c = k /\ c' = k + 1
    \/ /\ pc = "idle"
       /\ pc' = "ended"
       /\ pre'.args.op = "compute_mapping_transform"
       /\ pre'.args.class_idx = k
       /\ result'.kind = "return"

\* Every entry but the one of class k is the same in both models.
OtherEntriesKept(old, new, k) ==
    /\ new.dim = old.dim
    /\ new.num_classes = old.num_classes
    /\ new.default_class = old.default_class
    /\ \A j \in 1..old.num_classes :
          j # k + 1 => /\ new.transform[j] = old.transform[j]
                       /\ new.warp[j] = old.warp[j]

\* C11: the class entries of a model change only in a step in which
\* compute_mapping_transform completes, and then only the entry of
\* class_idx; a compute_mapping_transform that raises, estimate, the
\* initial assignment and the EM passes leave every entry as it was.
C11_EntriesChangeOnlyByCmt ==
    [][ (lvtln # None /\ ~ModelReplaced) =>
            /\ lvtln' # None
            /\ IF \E k \in 0..(lvtln.num_classes - 1) : CmtCompleted(k)
               THEN \A k \in 0..(lvtln.num_classes - 1) :
                        CmtCompleted(k) => OtherEntriesKept(lvtln, lvtln', k)
               ELSE lvtln' = lvtln ]_vars

C11_Witness ==
    /\ pc = "ended"
    /\ pre.args.op = "compute_mapping_transform"
    /\ pre.args.class_idx = 0
    /\ result.kind = "return"
    /\ pre.lvtln # None
    /\ pre.lvtln.num_classes = 2
    /\ pre.lvtln.warp[1] # lvtln.warp[1]
    /\ pre.lvtln.transform[2] = [kind |-> "base", warp |-> pre.lvtln.warp[2]]
    /\ lvtln.transform[2] = pre.lvtln.transform[2]
    /\ lvtln.warp[2] = pre.lvtln.warp[2]
    /\ warps # None

\* C12: for min_warp <= max_warp and warp_step > 0 every class of the
\* grid process builds, and every warp the sweep writes into the model,
\* lies within [min_warp, max_warp]; when max_warp - min_warp is k times
\* warp_step the grid has k + 1 classes, the last one at max_warp.
C12_GridWithinRange ==
    (num_classes > 0 /\ min_warp <= max_warp /\ warp_step > 0) =>
        /\ \A k \in 0..(num_classes - 1) :
              /\ min_warp <= min_warp + k * warp_step
              /\ min_warp + k * warp_step <= max_warp
        /\ pc = "assign" =>
              \A k \in 1..lvtln.num_classes :
                  min_warp <= lvtln.warp[k] /\ lvtln.warp[k] <= max_warp
        /\ (max_warp - min_warp) % warp_step = 0 =>
              /\ num_classes = (max_warp - min_warp) \div warp_step + 1
              /\ min_warp + (num_classes - 1) * warp_step = max_warp

\* C13: whenever a process call has ended, by returning or by raising at
\* any stage, self.features is what it was when the call started, the
\* 'sliding_window_cmvn' entry included.
C13_FeaturesRestored ==
    (pc = "ended" /\ pre.args # None /\ pre.args.op = "process") =>
        /\ features = pre.features
        /\ "sliding_window_cmvn" \in pre.features =>
              "sliding_window_cmvn" \in features

\* C14: whenever a process call has ended, self.warps and
\* self.transforms are unset or the complete utterance-keyed mapping of
\* a run that completed: a call that returns leaves one entry per
\* utterance, a call that raises leaves what the processor held when it
\* started, never the unit-keyed result of the initial assignment or of
\* an earlier EM pass.
C14_NoIntermediateResults ==
    (pc = "ended" /\ pre.args # None /\ pre.args.op = "process") =>
        IF result.kind = "return"
        THEN /\ warps # None
             /\ transforms # None
             /\ DOMAIN warps = Names(result.utterances)
             /\ DOMAIN transforms = Names(result.utterances)
        ELSE /\ warps = pre.warps
             /\ transforms = pre.transforms

====
